---- MODULE Spec2Model ----
(***************************************************************************)
(* Model of midkb's MidiInputHandler (src/main.rs) and of the lookups of   *)
(* its Config (src/config.rs).  One step of the model is one call of       *)
(* handle_midi_msg on one decoded MIDI message.                            *)
(*                                                                         *)
(* Option<T> values are modelled as sets: None is {} and Some(x) is {x}.   *)
(* Rust Strings are modelled as sequences of one-character strings, so     *)
(* that to_string, parse and the axis match are computed, not assumed.     *)
(***************************************************************************)
EXTENDS Integers, Sequences, FiniteSets

\* ------------------------------------------------------------------------
\* Option helpers
None == {}

Some(x) == {x}

Unwrap(o) == CHOOSE x \in o : TRUE

\* ------------------------------------------------------------------------
\* Input alphabet of the model
MaxNote == 63

\* notes 60 and 61 share key 30, note 62 has key 31, higher notes are unmapped
Notes == 60..MaxNote

Velocities == {0, 100}

Channels == {0, 1}

Controls == {2, 9}

CCValues == {0, 5, 10, 127}

\* ------------------------------------------------------------------------
\* Strings: u8::to_string and str::parse::<u16>
Digits == <<"0", "1", "2", "3", "4", "5", "6", "7", "8", "9">>

DigitChar(d) == Digits[d + 1]

IsDigit(ch) == \E d \in 0..9 : Digits[d + 1] = ch

DigitVal(ch) == CHOOSE d \in 0..9 : Digits[d + 1] = ch

RECURSIVE to_string(_)
to_string(n) == IF n < 10 THEN <<DigitChar(n)>>
               ELSE Append(to_string(n \div 10), DigitChar(n % 10))

RECURSIVE ParseDigits(_, _)
\* accumulates the digits of s onto acc; {} on a non-digit or on overflow
ParseDigits(s, acc) ==
    IF s = <<>> THEN Some(acc)
    ELSE IF ~IsDigit(Head(s)) THEN None
    ELSE LET n == acc * 10 + DigitVal(Head(s))
         IN IF n > 65535 THEN None ELSE ParseDigits(Tail(s), n)

\* str::parse::<u16>: an optional leading "+", then at least one digit
ParseU16(s) ==
    IF s = <<>> THEN None
    ELSE IF Head(s) = "+"
         THEN (IF Tail(s) = <<>> THEN None ELSE ParseDigits(Tail(s), 0))
         ELSE ParseDigits(s, 0)

\* ------------------------------------------------------------------------
\* Configuration (src/config.rs)
Str60 == <<"6", "0">>

Str61 == <<"6", "1">>

Str62 == <<"6", "2">>

Str2 == <<"2">>

NoteBindingTable == [s \in {Str60, Str61, Str62} |-> IF s = Str62 THEN 31 ELSE 30]

CCDirectionConfig(mode, ccw, cw, tk) ==
    [bind_mode |-> mode, counter_clockwise |-> ccw, clockwise |-> cw, toggle_key |-> tk]

CCTable(b) == [s \in {Str2} |-> b]

MkConfig(b, ch) == [cc |-> CCTable(b), notes |-> NoteBindingTable, note_channel |-> ch]

Configs ==
    { MkConfig(CCDirectionConfig("Mouse", Some(<<"-", "x">>), Some(<<"x">>), None), Some(1)),
      MkConfig(CCDirectionConfig("Mouse", Some(<<"y">>), Some(<<"-", "y">>), None), None),
      MkConfig(CCDirectionConfig("Mouse", Some(<<"z">>), None, None), Some(2)),
      MkConfig(CCDirectionConfig("Toggle", None, None, Some(200)), Some(1)),
      MkConfig(CCDirectionConfig("Toggle", None, None, None), None),
      MkConfig(CCDirectionConfig("Keyboard", Some(<<"6", "0">>), Some(<<"7", "0">>), None), Some(2)),
      MkConfig(CCDirectionConfig("Keyboard", None, Some(<<"x">>), None), Some(1)) }

\* NoteBinding::get_key
get_key(cfg, note) ==
    IF to_string(note) \in DOMAIN cfg.notes THEN Some(cfg.notes[to_string(note)]) ELSE None

\* CCConfig::get_dir_config
get_dir_config(cfg, cc) ==
    IF to_string(cc) \in DOMAIN cfg.cc THEN Some(cfg.cc[to_string(cc)]) ELSE None

\* ------------------------------------------------------------------------
\* Messages and device calls
NoMsg == [kind |-> "None", channel |-> 0, note |-> 0, velocity |-> 0, control |-> 0, value |-> 0]

NoteOn(ch, n, v) ==
    [kind |-> "NoteOn", channel |-> ch, note |-> n, velocity |-> v, control |-> 0, value |-> 0]

NoteOff(ch, n) ==
    [kind |-> "NoteOff", channel |-> ch, note |-> n, velocity |-> 0, control |-> 0, value |-> 0]

ControlChange(ch, c, v) ==
    [kind |-> "ControlChange", channel |-> ch, note |-> 0, velocity |-> 0, control |-> c, value |-> v]

OtherMsg(ch) ==
    [kind |-> "Other", channel |-> ch, note |-> 0, velocity |-> 0, control |-> 0, value |-> 0]

Press(k) == <<"press", k>>

Release(k) == <<"release", k>>

MoveMouse(dx, dy) == <<"move_mouse", dx, dy>>

\* HashMap::insert
Insert(m, k, v) == [x \in DOMAIN m \cup {k} |-> IF x = k THEN v ELSE m[x]]

\* HashMap::remove
Remove(m, k) == [x \in DOMAIN m \ {k} |-> m[x]]

\* HashMap::get
Get(m, k) == IF k \in DOMAIN m THEN Some(m[k]) ELSE None

EmptyMap == <<>>

\* ------------------------------------------------------------------------
\* MidiInputHandler (src/main.rs)
VARIABLES
    config,         \* self.config, immutable after new()
    cc_map,         \* self.cc_map: control number -> last value
    key_note_map,   \* self.key_note_map: key code -> set of held notes
    panicked,       \* an unwrap() in the callback has panicked
    ev,             \* the message handled by the last step
    out,            \* device calls made while handling ev, in order
    direction,      \* result of handle_cc in the last step, "none" otherwise
    warned,         \* a "Failed to press/release" warning was logged for ev
    map_at_call,    \* key_note_map as it was when the device was called for ev
    cc_map_at_call, \* cc_map as it was when the device was called for ev
    note_net,       \* key code -> press calls minus release calls made by note messages
    cc_map_before,        \* cc_map when the last step began
    key_note_map_before,  \* key_note_map when the last step began
    last_cc_in,     \* input log: control number -> value of its latest ControlChange
    prior_in,       \* input log: value of the previous ControlChange of ev's control, if any
    scenario        \* input/output log of the current run NoteOn A, NoteOn B, NoteOff A, NoteOff B

vars == <<config, cc_map, key_note_map, panicked, ev, out, direction, warned,
          map_at_call, cc_map_at_call, note_net, cc_map_before, key_note_map_before, last_cc_in, prior_in,
          scenario>>

\* handle_cc whose default on a first sighting is CounterClockwise
handle_cc_default_ccw(m, cc, val) ==
    LET prior == Get(m, cc)
    IN [cc_map |-> Insert(m, cc, val),
        direction |-> IF prior # None /\ Unwrap(prior) < val
                      THEN "Clockwise" ELSE "CounterClockwise"]

\* handle_cc with the comparison turned around
handle_cc_reversed(m, cc, val) ==
    LET prior == Get(m, cc)
    IN [cc_map |-> Insert(m, cc, val),
        direction |-> IF prior # None /\ ~(Unwrap(prior) > val)
                      THEN "CounterClockwise" ELSE "Clockwise"]

\* handle_cc where a tie counts as clockwise
handle_cc_tie_cw(m, cc, val) ==
    LET prior == Get(m, cc)
    IN [cc_map |-> Insert(m, cc, val),
        direction |-> IF prior # None /\ ~(Unwrap(prior) <= val)
                      THEN "CounterClockwise" ELSE "Clockwise"]

\* handle_cc without the unconditional insert of line 62
handle_cc_first_only(m, cc, val) ==
    LET prior == Get(m, cc)
    IN [cc_map |-> IF prior = None THEN Insert(m, cc, val) ELSE m,
        direction |-> IF prior # None /\ ~(Unwrap(prior) < val)
                      THEN "CounterClockwise" ELSE "Clockwise"]

\* handle_cc: returns the direction and the updated cc_map
handle_cc(m, cc, val) ==
    LET prior == Get(m, cc)
        dir == IF prior # None
               THEN (IF Unwrap(prior) < val THEN Some("Clockwise")
                                            ELSE Some("CounterClockwise"))
               ELSE None
        m1 == IF prior = None THEN Insert(m, cc, val) ELSE m
        m2 == Insert(m1, cc, val)
    IN [cc_map |-> m2,
        direction |-> IF dir = None THEN "Clockwise" ELSE Unwrap(dir)]

\* handle_note_press that presses again when the note is already held
handle_note_press_repeat(m, note, key, ok) ==
    LET held == IF key \in DOMAIN m THEN m[key] ELSE {}
    IN [key_note_map |-> Insert(m, key, held \cup {note}),
        out |-> IF held = {} \/ note \in held THEN <<Press(key)>> ELSE <<>>,
        warned |-> (held = {} \/ note \in held) /\ ~ok,
        map_at_call |-> Insert(m, key, held \cup {note})]

\* handle_note_press that takes the note back out when device.press fails
handle_note_press_rollback(m, note, key, ok) ==
    LET held == IF key \in DOMAIN m THEN m[key] ELSE {}
    IN [key_note_map |-> IF held = {} /\ ~ok THEN m ELSE Insert(m, key, held \cup {note}),
        out |-> IF held = {} THEN <<Press(key)>> ELSE <<>>,
        warned |-> held = {} /\ ~ok,
        map_at_call |-> Insert(m, key, held \cup {note})]

\* handle_note_press that calls device.press before inserting the note
handle_note_press_call_first(m, note, key, ok) ==
    LET held == IF key \in DOMAIN m THEN m[key] ELSE {}
    IN [key_note_map |-> Insert(m, key, held \cup {note}),
        out |-> IF held = {} THEN <<Press(key)>> ELSE <<>>,
        warned |-> held = {} /\ ~ok,
        map_at_call |-> IF held = {} THEN Insert(m, key, {})
                                     ELSE Insert(m, key, held \cup {note})]

\* handle_note_press that presses for every note, not only the first
handle_note_press_every(m, note, key, ok) ==
    LET held == IF key \in DOMAIN m THEN m[key] ELSE {}
    IN [key_note_map |-> Insert(m, key, held \cup {note}),
        out |-> <<Press(key)>>,
        warned |-> ~ok,
        map_at_call |-> Insert(m, key, held \cup {note})]

\* handle_note_press: ok is the result of device.press
handle_note_press(m, note, key, ok) ==
    LET m0 == IF key \in DOMAIN m THEN m ELSE Insert(m, key, {})
        should_press_key == m0[key] = {}
        m1 == Insert(m0, key, m0[key] \cup {note})
    IN [key_note_map |-> m1,
        out |-> IF should_press_key THEN <<Press(key)>> ELSE <<>>,
        warned |-> should_press_key /\ ~ok,
        map_at_call |-> m1]

\* handle_note_release that releases the key when any of its notes lifts
handle_note_release_any(m, note, key, ok) ==
    IF key \in DOMAIN m
    THEN [key_note_map |-> IF m[key] \ {note} = {} THEN Remove(m, key)
                           ELSE Insert(m, key, m[key] \ {note}),
          out |-> <<Release(key)>>,
          warned |-> ~ok,
          map_at_call |-> Insert(m, key, m[key] \ {note})]
    ELSE [key_note_map |-> m, out |-> <<>>, warned |-> FALSE, map_at_call |-> m]

\* handle_note_release that releases the key also when nothing is tracked for it
handle_note_release_untracked(m, note, key, ok) ==
    IF key \in DOMAIN m /\ m[key] \ {note} # {}
    THEN [key_note_map |-> Insert(m, key, m[key] \ {note}), out |-> <<>>,
          warned |-> FALSE, map_at_call |-> Insert(m, key, m[key] \ {note})]
    ELSE [key_note_map |-> Remove(m, key), out |-> <<Release(key)>>,
          warned |-> ~ok, map_at_call |-> m]

\* handle_note_release without the key_note_map.remove of line 103
handle_note_release_keep(m, note, key, ok) ==
    IF key \in DOMAIN m
    THEN [key_note_map |-> Insert(m, key, m[key] \ {note}),
          out |-> IF m[key] \ {note} = {} THEN <<Release(key)>> ELSE <<>>,
          warned |-> m[key] \ {note} = {} /\ ~ok,
          map_at_call |-> Insert(m, key, m[key] \ {note})]
    ELSE [key_note_map |-> m, out |-> <<>>, warned |-> FALSE, map_at_call |-> m]

\* handle_note_release: ok is the result of device.release
handle_note_release(m, note, key, ok) ==
    IF key \in DOMAIN m
    THEN LET m1 == Insert(m, key, m[key] \ {note})
         IN IF m1[key] = {}
            THEN [key_note_map |-> Remove(m1, key),
                  out |-> <<Release(key)>>,
                  warned |-> ~ok,
                  map_at_call |-> m1]
            ELSE [key_note_map |-> m1, out |-> <<>>, warned |-> FALSE, map_at_call |-> m1]
    ELSE [key_note_map |-> m, out |-> <<>>, warned |-> FALSE, map_at_call |-> m]

\* the channel check comparing the 0-based channel with the 1-based filter
channel_passes_zero_based(cfg, channel) ==
    IF cfg.note_channel # None
    THEN ~(channel # Unwrap(cfg.note_channel))
    ELSE TRUE

\* the channel check of the NoteOn and NoteOff arms: TRUE when the message is kept
channel_passes(cfg, channel) ==
    IF cfg.note_channel # None
    THEN ~(channel + 1 # Unwrap(cfg.note_channel))
    ELSE TRUE

Untouched(m) == [key_note_map |-> m, out |-> <<>>, warned |-> FALSE, map_at_call |-> m]

\* the NoteOn arm using the note number as key code when no key is mapped
note_on_arm_unmapped(cfg, m, channel, note, velocity, ok) ==
    IF ~channel_passes(cfg, channel) THEN Untouched(m)
    ELSE IF velocity = 0
         THEN handle_note_release(m, note,
                  IF get_key(cfg, note) # None THEN Unwrap(get_key(cfg, note)) ELSE note, ok)
         ELSE handle_note_press(m, note,
                  IF get_key(cfg, note) # None THEN Unwrap(get_key(cfg, note)) ELSE note, ok)

\* the NoteOn arm without the velocity == 0 case
note_on_arm_no_zero(cfg, m, channel, note, velocity, ok) ==
    IF ~channel_passes(cfg, channel) THEN Untouched(m)
    ELSE IF get_key(cfg, note) # None
         THEN handle_note_press(m, note, Unwrap(get_key(cfg, note)), ok)
         ELSE Untouched(m)

\* the NoteOn arm of handle_midi_msg
note_on_arm(cfg, m, channel, note, velocity, ok) ==
    IF ~channel_passes(cfg, channel) THEN Untouched(m)
    ELSE LET key == get_key(cfg, note)
         IN IF key # None
            THEN (IF velocity = 0
                  THEN handle_note_release(m, note, Unwrap(key), ok)
                  ELSE handle_note_press(m, note, Unwrap(key), ok))
            ELSE Untouched(m)

\* the NoteOff arm of handle_midi_msg
note_off_arm(cfg, m, channel, note, ok) ==
    IF ~channel_passes(cfg, channel) THEN Untouched(m)
    ELSE LET key == get_key(cfg, note)
         IN IF key # None
            THEN handle_note_release(m, note, Unwrap(key), ok)
            ELSE Untouched(m)

\* the match on the axis token in the Mouse arm
axis_delta(axis, speed) ==
    IF axis = Some(<<"x">>) THEN <<speed, 0>>
    ELSE IF axis = Some(<<"-", "x">>) THEN <<-speed, 0>>
    ELSE IF axis = Some(<<"y">>) THEN <<0, speed>>
    ELSE IF axis = Some(<<"-", "y">>) THEN <<0, -speed>>
    ELSE <<0, 0>>

\* the Mouse arm without the second match on the direction
mouse_delta_no_flip(cc_config, dir) ==
    axis_delta(IF dir = "CounterClockwise" THEN cc_config.counter_clockwise
                                           ELSE cc_config.clockwise, 10)

\* the Mouse arm: the delta handed to device.move_mouse
mouse_delta(cc_config, dir) ==
    LET speed == 10
        axis == IF dir = "CounterClockwise" THEN cc_config.counter_clockwise
                                            ELSE cc_config.clockwise
        d == axis_delta(axis, speed)
    IN IF dir = "CounterClockwise" THEN <<-d[1], -d[2]>> ELSE d

\* the Keyboard arm releasing the key after the press
keyboard_arm_press_release(cc_config, dir) ==
    LET token == IF dir = "CounterClockwise" THEN cc_config.counter_clockwise
                                             ELSE cc_config.clockwise
    IN IF token = None THEN [out |-> <<>>, warned |-> FALSE, panicked |-> FALSE]
       ELSE IF ParseU16(Unwrap(token)) = None
            THEN [out |-> <<>>, warned |-> FALSE, panicked |-> TRUE]
            ELSE [out |-> <<Press(Unwrap(ParseU16(Unwrap(token)))),
                            Release(Unwrap(ParseU16(Unwrap(token))))>>,
                  warned |-> FALSE, panicked |-> FALSE]

\* the Keyboard arm: device.press(token.parse().unwrap()), result ignored
keyboard_arm(cc_config, dir) ==
    LET token == IF dir = "CounterClockwise" THEN cc_config.counter_clockwise
                                             ELSE cc_config.clockwise
    IN IF token = None THEN [out |-> <<>>, warned |-> FALSE, panicked |-> FALSE]
       ELSE IF ParseU16(Unwrap(token)) = None
            THEN [out |-> <<>>, warned |-> FALSE, panicked |-> TRUE]
            ELSE [out |-> <<Press(Unwrap(ParseU16(Unwrap(token))))>>,
                  warned |-> FALSE, panicked |-> FALSE]

\* the Toggle arm pressing on every non-zero value
toggle_arm_nonzero(cc_config, velocity, ok) ==
    IF cc_config.toggle_key # None
    THEN (IF velocity # 0
          THEN [out |-> <<Press(Unwrap(cc_config.toggle_key))>>, warned |-> ~ok,
                panicked |-> FALSE]
          ELSE [out |-> <<Release(Unwrap(cc_config.toggle_key))>>, warned |-> ~ok,
                panicked |-> FALSE])
    ELSE [out |-> <<>>, warned |-> FALSE, panicked |-> FALSE]

\* the Toggle arm: ok is the result of device.press / device.release
toggle_arm(cc_config, velocity, ok) ==
    IF cc_config.toggle_key # None
    THEN (IF velocity = 127
          THEN [out |-> <<Press(Unwrap(cc_config.toggle_key))>>, warned |-> ~ok,
                panicked |-> FALSE]
          ELSE IF velocity = 0
          THEN [out |-> <<Release(Unwrap(cc_config.toggle_key))>>, warned |-> ~ok,
                panicked |-> FALSE]
          ELSE [out |-> <<>>, warned |-> FALSE, panicked |-> FALSE])
    ELSE [out |-> <<>>, warned |-> FALSE, panicked |-> FALSE]

\* the ControlChange arm with a Mouse arm that skips a zero delta
control_change_arm_skip_zero(cfg, control, value, dir, ok) ==
    LET b == get_dir_config(cfg, control)
    IN IF b = None THEN [out |-> <<>>, warned |-> FALSE, panicked |-> FALSE]
       ELSE IF Unwrap(b).bind_mode = "Keyboard" THEN keyboard_arm(Unwrap(b), dir)
       ELSE IF Unwrap(b).bind_mode = "Mouse"
            THEN [out |-> IF mouse_delta(Unwrap(b), dir) = <<0, 0>> THEN <<>>
                          ELSE <<MoveMouse(mouse_delta(Unwrap(b), dir)[1],
                                           mouse_delta(Unwrap(b), dir)[2])>>,
                  warned |-> FALSE, panicked |-> FALSE]
       ELSE toggle_arm(Unwrap(b), value, ok)

\* the ControlChange arm of handle_midi_msg, after handle_cc has run
control_change_arm(cfg, control, value, dir, ok) ==
    LET b == get_dir_config(cfg, control)
    IN IF b = None THEN [out |-> <<>>, warned |-> FALSE, panicked |-> FALSE]
       ELSE IF Unwrap(b).bind_mode = "Keyboard" THEN keyboard_arm(Unwrap(b), dir)
       ELSE IF Unwrap(b).bind_mode = "Mouse"
            THEN [out |-> <<MoveMouse(mouse_delta(Unwrap(b), dir)[1],
                                      mouse_delta(Unwrap(b), dir)[2])>>,
                  warned |-> FALSE, panicked |-> FALSE]
       ELSE toggle_arm(Unwrap(b), value, ok)

\* ------------------------------------------------------------------------
\* Log of the run NoteOn A, NoteOn B, NoteOff A, NoteOff B (A # B on one key,
\* every message kept by the channel check) that starts with empty trackers.
\* Each entry is the message and the device calls it caused.
Entry(msg, o) == [msg |-> msg, out |-> o]

\* msg is on the configured note channel, or no channel is configured
Kept(cfg, msg) == cfg.note_channel = None \/ msg.channel + 1 \in cfg.note_channel

IsPress(cfg, msg) ==
    /\ msg.kind = "NoteOn" /\ msg.velocity > 0
    /\ Kept(cfg, msg)
    /\ get_key(cfg, msg.note) # None

IsRelease(cfg, msg, n) ==
    /\ msg.kind = "NoteOff" /\ msg.note = n
    /\ Kept(cfg, msg)

Expected(cfg, log, msg) ==
    IF Len(log) = 1
    THEN IsPress(cfg, msg) /\ msg.note # log[1].msg.note
         /\ get_key(cfg, msg.note) = get_key(cfg, log[1].msg.note)
    ELSE IF Len(log) = 2 THEN IsRelease(cfg, msg, log[1].msg.note)
    ELSE IF Len(log) = 3 THEN IsRelease(cfg, msg, log[2].msg.note)
    ELSE FALSE

NextScenario(cfg, log, before, msg, o) ==
    IF Len(log) \in 1..3 /\ Expected(cfg, log, msg)
    THEN Append(log, Entry(msg, o))
    ELSE IF before = EmptyMap /\ IsPress(cfg, msg) THEN <<Entry(msg, o)>>
    ELSE <<>>

\* ------------------------------------------------------------------------
\* MidiInputHandler::new
Init ==
    /\ config \in Configs
    /\ cc_map = EmptyMap
    /\ key_note_map = EmptyMap
    /\ panicked = FALSE
    /\ ev = NoMsg
    /\ out = <<>>
    /\ direction = "none"
    /\ warned = FALSE
    /\ map_at_call = EmptyMap
    /\ cc_map_at_call = EmptyMap
    /\ note_net = [k \in {config.notes[s] : s \in DOMAIN config.notes} |-> 0]
    /\ cc_map_before = EmptyMap
    /\ key_note_map_before = EmptyMap
    /\ last_cc_in = EmptyMap
    /\ prior_in = None
    /\ scenario = <<>>

\* the press calls of o minus its release calls, added per key to net
Tally(net, o) ==
    [k \in DOMAIN net |->
        net[k] + Cardinality({i \in DOMAIN o : o[i] = Press(k)})
               - Cardinality({i \in DOMAIN o : o[i] = Release(k)})]

\* what every step records about the message it handled
Observe(msg, o) ==
    /\ ev' = msg
    /\ out' = o
    /\ cc_map_before' = cc_map
    /\ key_note_map_before' = key_note_map
    /\ scenario' = NextScenario(config, scenario, key_note_map, msg, o)
    /\ prior_in' = IF msg.kind = "ControlChange" THEN Get(last_cc_in, msg.control) ELSE None
    /\ last_cc_in' = IF msg.kind = "ControlChange"
                     THEN Insert(last_cc_in, msg.control, msg.value)
                     ELSE last_cc_in

\* handle_midi_msg on ChannelVoice NoteOn
HandleNoteOn(channel, note, velocity, ok) ==
    /\ ~panicked
    /\ \E r \in {note_on_arm(config, key_note_map, channel, note, velocity, ok)} :
          /\ key_note_map' = r.key_note_map
          /\ warned' = r.warned
          /\ map_at_call' = r.map_at_call
          /\ note_net' = Tally(note_net, r.out)
          /\ Observe(NoteOn(channel, note, velocity), r.out)
    /\ direction' = "none"
    /\ cc_map_at_call' = cc_map
    /\ UNCHANGED <<config, cc_map, panicked>>

\* handle_midi_msg on ChannelVoice NoteOff (its velocity is ignored)
HandleNoteOff(channel, note, ok) ==
    /\ ~panicked
    /\ \E r \in {note_off_arm(config, key_note_map, channel, note, ok)} :
          /\ key_note_map' = r.key_note_map
          /\ warned' = r.warned
          /\ map_at_call' = r.map_at_call
          /\ note_net' = Tally(note_net, r.out)
          /\ Observe(NoteOff(channel, note), r.out)
    /\ direction' = "none"
    /\ cc_map_at_call' = cc_map
    /\ UNCHANGED <<config, cc_map, panicked>>

\* handle_midi_msg on ChannelVoice ControlChange
HandleControlChange(channel, control, value, ok) ==
    /\ ~panicked
    /\ \E h \in {handle_cc(cc_map, control, value)} :
       \E r \in {control_change_arm(config, control, value, h.direction, ok)} :
          /\ cc_map' = h.cc_map
          /\ cc_map_at_call' = h.cc_map
          /\ direction' = h.direction
          /\ warned' = r.warned
          /\ panicked' = r.panicked
          /\ Observe(ControlChange(channel, control, value), r.out)
    /\ map_at_call' = key_note_map
    /\ UNCHANGED <<config, key_note_map, note_net>>

\* the `_ => {}` arm clearing the rotation history
HandleOther_clears(channel) ==
    /\ ~panicked
    /\ Observe(OtherMsg(channel), <<>>)
    /\ direction' = "none"
    /\ warned' = FALSE
    /\ map_at_call' = key_note_map
    /\ cc_map_at_call' = cc_map
    /\ cc_map' = EmptyMap
    /\ UNCHANGED <<config, key_note_map, panicked, note_net>>

\* handle_midi_msg on any other message: the `_ => {}` arm
HandleOther(channel) ==
    /\ ~panicked
    /\ Observe(OtherMsg(channel), <<>>)
    /\ direction' = "none"
    /\ warned' = FALSE
    /\ map_at_call' = key_note_map
    /\ cc_map_at_call' = cc_map
    /\ UNCHANGED <<config, cc_map, key_note_map, panicked, note_net>>

Next ==
    \/ \E ch \in Channels, n \in Notes, v \in Velocities, ok \in BOOLEAN :
           HandleNoteOn(ch, n, v, ok)
    \/ \E ch \in Channels, n \in Notes, ok \in BOOLEAN :
           HandleNoteOff(ch, n, ok)
    \/ \E ch \in Channels, c \in Controls, v \in CCValues, ok \in BOOLEAN :
           HandleControlChange(ch, c, v, ok)
    \/ \E ch \in Channels : HandleOther(ch)

Spec == Init /\ [][Next]_vars

\* ------------------------------------------------------------------------
\* Properties
Held(m, k) == IF k \in DOMAIN m THEN m[k] ELSE {}

Count(seq, a) == Cardinality({i \in DOMAIN seq : seq[i] = a})

BoundKeys == {config.notes[s] : s \in DOMAIN config.notes}

IsNoteMsg == ev.kind \in {"NoteOn", "NoteOff"}

Mapped == IsNoteMsg /\ get_key(config, ev.note) # None

EvKey == Unwrap(get_key(config, ev.note))

IsCC == ev.kind = "ControlChange"

Bound == IsCC /\ get_dir_config(config, ev.control) # None

Binding == Unwrap(get_dir_config(config, ev.control))

DirToken == IF direction = "CounterClockwise" THEN Binding.counter_clockwise
                                              ELSE Binding.clockwise

TrackersUnchanged == cc_map = cc_map_before /\ key_note_map = key_note_map_before

\* C1: for two notes A # B on one key K, the run NoteOn A, NoteOn B, NoteOff A,
\* NoteOff B from empty trackers calls press(K) once, at NoteOn A, and
\* release(K) once, at NoteOff B, and nothing in between; and every note
\* message presses K exactly when K's held set goes from empty to non-empty
\* and releases K exactly when it goes from non-empty to empty.
C1_Aliasing ==
    /\ Len(scenario) = 4 =>
          LET K == Unwrap(get_key(config, scenario[1].msg.note))
          IN /\ scenario[1].out = <<Press(K)>>
             /\ scenario[2].out = <<>>
             /\ scenario[3].out = <<>>
             /\ scenario[4].out = <<Release(K)>>
    /\ IsNoteMsg =>
          /\ \A i \in DOMAIN out : \E k \in BoundKeys : out[i] \in {Press(k), Release(k)}
          /\ \A k \in BoundKeys :
                /\ Count(out, Press(k)) =
                      IF Held(key_note_map_before, k) = {} /\ Held(key_note_map, k) # {}
                      THEN 1 ELSE 0
                /\ Count(out, Release(k)) =
                      IF Held(key_note_map_before, k) # {} /\ Held(key_note_map, k) = {}
                      THEN 1 ELSE 0

C1_Witness ==
    /\ Len(scenario) = 4
    /\ scenario[1].msg.note # scenario[2].msg.note
    /\ ev = scenario[4].msg
    /\ out = <<Release(30)>>

\* C2 as stated: with a channel filter configured, a NoteOn, NoteOff or
\* ControlChange on another channel makes no device call and leaves cc_map
\* and key_note_map as they were.
C2_FilterAllKinds ==
    (config.note_channel # None /\ (IsNoteMsg \/ IsCC) /\ ~Kept(config, ev))
        => (out = <<>> /\ TrackersUnchanged)

\* C2 amended: with a channel filter configured, a NoteOn or NoteOff on
\* another channel makes no device call and leaves cc_map and key_note_map
\* as they were; a note message on the filter channel is processed (a mapped
\* note is in its key's held set after a NoteOn with velocity > 0 and not in
\* it after a NoteOff or a NoteOn with velocity 0); a ControlChange is
\* processed whatever its channel (its value is recorded in cc_map).
C2_FilterNotesOnly ==
    /\ (config.note_channel # None /\ IsNoteMsg /\ ~Kept(config, ev))
          => (out = <<>> /\ TrackersUnchanged)
    /\ (Mapped /\ Kept(config, ev))
          => (ev.note \in Held(key_note_map, EvKey)
                 <=> (ev.kind = "NoteOn" /\ ev.velocity > 0))
    /\ IsCC => cc_map = Insert(cc_map_before, ev.control, ev.value)

C2_Witness ==
    /\ config.note_channel # None
    /\ ev.kind = "NoteOn" /\ ev.velocity > 0 /\ Mapped
    /\ ~Kept(config, ev)
    /\ key_note_map # EmptyMap
    /\ ev.note \notin Held(key_note_map, EvKey)

\* the fixed mapping of the four axis tokens
AxisTokens == {<<"x">>, <<"-", "x">>, <<"y">>, <<"-", "y">>}

TokenDelta(tok) ==
    CASE tok = <<"x">> -> <<10, 0>>
      [] tok = <<"-", "x">> -> <<-10, 0>>
      [] tok = <<"y">> -> <<0, 10>>
      [] tok = <<"-", "y">> -> <<0, -10>>

MouseCase == Bound /\ Binding.bind_mode = "Mouse" /\ DirToken # None
             /\ Unwrap(DirToken) \in AxisTokens

\* C3 as stated: a ControlChange on a Mouse-bound control moves the mouse by
\* the fixed mapping of the axis token configured for the inferred direction.
C3_FixedMapping ==
    MouseCase => out = <<MoveMouse(TokenDelta(Unwrap(DirToken))[1],
                                   TokenDelta(Unwrap(DirToken))[2])>>

\* C3 amended: a ControlChange on a Mouse-bound control moves the mouse by
\* the fixed mapping of the axis token configured for the inferred direction
\* when that direction is Clockwise, and by the negation of that mapping
\* when it is CounterClockwise; with clockwise = +X and counter_clockwise =
\* -X, ControlChange(2,10) as first sighting moves by (10,0) and the
\* following ControlChange(2,5) moves by (10,0) as well.
C3_MappingFlippedCounterClockwise ==
    MouseCase =>
        LET d == TokenDelta(Unwrap(DirToken))
        IN out = IF direction = "Clockwise" THEN <<MoveMouse(d[1], d[2])>>
                                            ELSE <<MoveMouse(-d[1], -d[2])>>

C3_Witness ==
    /\ MouseCase
    /\ Binding.clockwise = Some(<<"x">>) /\ Binding.counter_clockwise = Some(<<"-", "x">>)
    /\ ev.control = 2 /\ ev.value = 5 /\ prior_in = Some(10)
    /\ direction = "CounterClockwise"
    /\ out = <<MoveMouse(10, 0)>>

\* C4: the first ControlChange of a control yields Clockwise; a later one
\* yields Clockwise exactly when its value is greater than the value of the
\* previous ControlChange of the same control, else CounterClockwise.
C4_RotationDeterminism ==
    IsCC => direction = IF prior_in = None THEN "Clockwise"
                        ELSE IF ev.value > Unwrap(prior_in) THEN "Clockwise"
                        ELSE "CounterClockwise"

C4_Witness ==
    /\ IsCC /\ prior_in # None /\ ev.value > Unwrap(prior_in)
    /\ direction = "Clockwise"
    /\ \E c \in DOMAIN last_cc_in : c # ev.control /\ last_cc_in[c] > ev.value

\* C5: a ControlChange carrying the same value as the previous ControlChange
\* of the same control yields CounterClockwise.
C5_TieIsCounterClockwise ==
    (IsCC /\ prior_in = Some(ev.value)) => direction = "CounterClockwise"

C5_Witness ==
    IsCC /\ prior_in = Some(ev.value) /\ ev.value = 127 /\ direction = "CounterClockwise"

\* C6: a NoteOff for a mapped note whose key has no held-note set makes no
\* device call, does not panic and leaves key_note_map as it was.
C6_IdempotentRelease ==
    (ev.kind = "NoteOff" /\ Mapped /\ Kept(config, ev)
        /\ EvKey \notin DOMAIN key_note_map_before)
        => (out = <<>> /\ ~panicked /\ ~warned /\ key_note_map = key_note_map_before)

C6_Witness ==
    /\ ev.kind = "NoteOff" /\ Mapped /\ Kept(config, ev)
    /\ EvKey \notin DOMAIN key_note_map_before
    /\ key_note_map_before # EmptyMap
    /\ out = <<>>

\* C7: a NoteOn with velocity 0 makes the device calls and leaves the
\* trackers in the state that a NoteOff of the same note on the same channel
\* makes and leaves from the same state.
C7_VelocityZeroIsNoteOff ==
    (ev.kind = "NoteOn" /\ ev.velocity = 0) =>
        \E ok \in BOOLEAN :
            LET r == note_off_arm(config, key_note_map_before, ev.channel, ev.note, ok)
            IN /\ out = r.out
               /\ key_note_map = r.key_note_map
               /\ warned = r.warned
               /\ cc_map = cc_map_before

C7_Witness ==
    /\ ev.kind = "NoteOn" /\ ev.velocity = 0 /\ Mapped
    /\ out = <<Release(EvKey)>>
    /\ key_note_map_before # EmptyMap

\* C8: a ControlChange on a Toggle-bound control with a toggle key presses
\* the key on value 127, releases it on value 0 and does nothing on any other
\* value, whatever the direction; without a toggle key it does nothing.
C8_Toggle ==
    (Bound /\ Binding.bind_mode = "Toggle") =>
        out = IF Binding.toggle_key = None THEN <<>>
              ELSE IF ev.value = 127 THEN <<Press(Unwrap(Binding.toggle_key))>>
              ELSE IF ev.value = 0 THEN <<Release(Unwrap(Binding.toggle_key))>>
              ELSE <<>>

C8_Witness ==
    /\ Bound /\ Binding.bind_mode = "Toggle" /\ Binding.toggle_key = Some(200)
    /\ ev.value = 127 /\ direction = "CounterClockwise"
    /\ out = <<Press(200)>>

\* C9: after a ControlChange(c, v) the value stored for c is v, bound or
\* not; cc_map always equals the log of the latest value of every control;
\* a ControlChange of an unbound control makes no device call.
C9_HistoryRecorded ==
    /\ cc_map = last_cc_in
    /\ IsCC => (ev.control \in DOMAIN cc_map /\ cc_map[ev.control] = ev.value)
    /\ (IsCC /\ ~Bound) => out = <<>>

C9_Witness ==
    /\ IsCC /\ ~Bound /\ out = <<>>
    /\ prior_in # None /\ Unwrap(prior_in) # ev.value
    /\ cc_map[ev.control] = ev.value

\* C10: key_note_map never holds an empty set.
C10_NoEmptySet == \A k \in DOMAIN key_note_map : key_note_map[k] # {}

C10_Witness ==
    /\ ev.kind = "NoteOff" /\ Mapped
    /\ out = <<Release(EvKey)>>
    /\ EvKey \notin DOMAIN key_note_map
    /\ key_note_map # EmptyMap

\* C11: no message is fatal: whatever the accepted configuration and the
\* messages, handle_midi_msg never panics.
C11_NeverPanics == ~panicked

\* the trackers that handling ev from the state before it yields when the
\* device call returns ok
TrackersWith(ok) ==
    IF ev.kind = "NoteOn"
    THEN [cc_map |-> cc_map_before,
          key_note_map |-> note_on_arm(config, key_note_map_before, ev.channel,
                                       ev.note, ev.velocity, ok).key_note_map]
    ELSE IF ev.kind = "NoteOff"
    THEN [cc_map |-> cc_map_before,
          key_note_map |-> note_off_arm(config, key_note_map_before, ev.channel,
                                        ev.note, ok).key_note_map]
    ELSE IF ev.kind = "ControlChange"
    THEN [cc_map |-> handle_cc(cc_map_before, ev.control, ev.value).cc_map,
          key_note_map |-> key_note_map_before]
    ELSE [cc_map |-> cc_map_before, key_note_map |-> key_note_map_before]

\* C12: the trackers after a message are the same whether the device call
\* succeeded or failed: after a failed press the note is in its key's set,
\* after a failed release the key's entry is gone, and a failed call never
\* stops the handler.
C12_FailureKeepsBookkeeping ==
    /\ \A ok \in BOOLEAN :
          /\ cc_map = TrackersWith(ok).cc_map
          /\ key_note_map = TrackersWith(ok).key_note_map
    /\ warned => ~panicked
    /\ (warned /\ IsNoteMsg /\ out = <<Press(EvKey)>>)
          => ev.note \in Held(key_note_map, EvKey)
    /\ (warned /\ IsNoteMsg /\ out = <<Release(EvKey)>>)
          => EvKey \notin DOMAIN key_note_map

C12_Witness ==
    /\ warned /\ Mapped
    /\ out = <<Press(EvKey)>>
    /\ key_note_map_before # EmptyMap
    /\ key_note_map[EvKey] = {ev.note}

NoteCall == IsNoteMsg /\ out # <<>>

\* C13 as stated: when a note message calls the device, the trackers are
\* already in their final state: at a release the key's entry has been
\* removed, at a press the note is in the key's set.
C13_CommitBeforeDeliver ==
    /\ out # <<>> => cc_map_at_call = cc_map
    /\ NoteCall => map_at_call = key_note_map
    /\ (NoteCall /\ out = <<Release(EvKey)>>) => EvKey \notin DOMAIN map_at_call
    /\ (NoteCall /\ out = <<Press(EvKey)>>) => ev.note \in Held(map_at_call, EvKey)

\* C13 amended: when the device is called, cc_map is final; at a press the
\* note is already in the key's set and key_note_map is final; at a release
\* the note has already been taken out of the key's set, which is empty but
\* still in key_note_map; the entry is removed after the call returns, failed
\* or not, and no other entry differs from the final state.
C13_ReleaseBeforeRemove ==
    /\ out # <<>> => cc_map_at_call = cc_map
    /\ (NoteCall /\ out = <<Press(EvKey)>>)
          => (map_at_call = key_note_map /\ ev.note \in Held(map_at_call, EvKey))
    /\ (NoteCall /\ out = <<Release(EvKey)>>)
          => /\ EvKey \in DOMAIN map_at_call
             /\ map_at_call[EvKey] = {}
             /\ EvKey \notin DOMAIN key_note_map
             /\ key_note_map = Remove(map_at_call, EvKey)

C13_Witness ==
    /\ NoteCall /\ out = <<Release(EvKey)>> /\ warned
    /\ map_at_call[EvKey] = {}
    /\ key_note_map # EmptyMap

FirstSighting == IsCC /\ prior_in = None

KeyboardCase == Bound /\ Binding.bind_mode = "Keyboard"

MouseMode == Bound /\ Binding.bind_mode = "Mouse"

\* C14 as stated: the first ControlChange of a control only creates its
\* entry; no Keyboard press and no Mouse move is made for it.
C14_FirstSightingSilent ==
    (FirstSighting /\ (KeyboardCase \/ MouseMode)) => out = <<>>

\* C14 amended: the first ControlChange of a control creates its entry and
\* is dispatched as Clockwise: a Mouse binding moves by the delta of the
\* clockwise token ((0,0) when absent or unrecognized), a Keyboard binding
\* presses the clockwise key when that token is present and a key code, does
\* nothing when it is absent, and panics when it is not a key code.
C14_FirstSightingIsClockwise ==
    FirstSighting =>
        /\ ev.control \notin DOMAIN cc_map_before
        /\ cc_map[ev.control] = ev.value
        /\ direction = "Clockwise"
        /\ MouseMode =>
              out = IF Binding.clockwise # None /\ Unwrap(Binding.clockwise) \in AxisTokens
                    THEN <<MoveMouse(TokenDelta(Unwrap(Binding.clockwise))[1],
                                     TokenDelta(Unwrap(Binding.clockwise))[2])>>
                    ELSE <<MoveMouse(0, 0)>>
        /\ KeyboardCase =>
              IF Binding.clockwise = None THEN out = <<>> /\ ~panicked
              ELSE IF ParseU16(Unwrap(Binding.clockwise)) = None THEN out = <<>> /\ panicked
              ELSE out = <<Press(Unwrap(ParseU16(Unwrap(Binding.clockwise))))>> /\ ~panicked

C14_Witness ==
    /\ FirstSighting /\ KeyboardCase
    /\ cc_map_before # EmptyMap
    /\ out = <<Press(70)>>

\* C15: a ControlChange on a Keyboard-bound control presses, once, the key
\* configured for the inferred direction, makes no device call when that
\* direction has no key (token absent or not a key code), and never releases.
C15_KeyboardTap ==
    KeyboardCase =>
        /\ out = IF DirToken = None \/ ParseU16(Unwrap(DirToken)) = None THEN <<>>
                 ELSE <<Press(Unwrap(ParseU16(Unwrap(DirToken))))>>
        /\ \A i \in DOMAIN out : out[i][1] # "release"

C15_Witness ==
    /\ KeyboardCase /\ direction = "CounterClockwise"
    /\ out = <<Press(60)>>

\* C16: every ControlChange on a Mouse-bound control makes exactly one
\* move_mouse call, by (0,0) when the token of the inferred direction is
\* absent or unrecognized.
C16_MouseAlwaysEmits ==
    MouseMode =>
        /\ Len(out) = 1
        /\ out[1][1] = "move_mouse"
        /\ (DirToken = None \/ Unwrap(DirToken) \notin AxisTokens)
              => out = <<MoveMouse(0, 0)>>

C16_Witness ==
    /\ MouseMode /\ direction = "CounterClockwise"
    /\ DirToken = Some(<<"z">>)
    /\ out = <<MoveMouse(0, 0)>>

Unmapped == IsNoteMsg /\ to_string(ev.note) \notin DOMAIN config.notes

\* C17: a NoteOn of any velocity or a NoteOff for a note without a key makes
\* no device call and leaves cc_map and key_note_map as they were.
C17_UnmappedDropped ==
    Unmapped => (out = <<>> /\ ~warned /\ TrackersUnchanged)

C17_Witness ==
    /\ Unmapped /\ ev.kind = "NoteOn" /\ ev.velocity > 0 /\ Kept(config, ev)
    /\ key_note_map # EmptyMap /\ cc_map # EmptyMap
    /\ out = <<>>

\* C18: for every key, the press calls minus the release calls made by note
\* messages is 0 or 1, and is 1 exactly when the key is in key_note_map; a
\* note message makes at most one call, a press only from 0 and a release
\* only from 1, so presses and releases alternate starting with a press.
C18_EdgesAlternate ==
    /\ \A k \in BoundKeys :
          /\ note_net[k] \in {0, 1}
          /\ note_net[k] = 1 <=> k \in DOMAIN key_note_map
    /\ IsNoteMsg =>
          /\ Len(out) <= 1
          /\ \A k \in BoundKeys :
                /\ out = <<Press(k)>> => (note_net[k] = 1 /\ k \notin DOMAIN key_note_map_before)
                /\ out = <<Release(k)>> => (note_net[k] = 0 /\ k \in DOMAIN key_note_map_before)

C18_Witness ==
    /\ IsNoteMsg /\ out = <<Release(31)>>
    /\ note_net[30] = 1 /\ note_net[31] = 0
    /\ key_note_map[30] = {60, 61}

\* C19: a NoteOn with velocity > 0 for a note already in its key's set makes
\* no press and leaves key_note_map as it was, and a NoteOff of the only
\* note in a key's set releases the key and removes its entry.
C19_SetNotCounter ==
    /\ (ev.kind = "NoteOn" /\ ev.velocity > 0 /\ Mapped /\ Kept(config, ev)
           /\ ev.note \in Held(key_note_map_before, EvKey))
          => (out = <<>> /\ key_note_map = key_note_map_before)
    /\ (ev.kind = "NoteOff" /\ Mapped /\ Kept(config, ev)
           /\ Held(key_note_map_before, EvKey) = {ev.note})
          => (out = <<Release(EvKey)>> /\ EvKey \notin DOMAIN key_note_map)

C19_Witness ==
    /\ ev.kind = "NoteOn" /\ ev.velocity > 0 /\ Mapped /\ Kept(config, ev)
    /\ Held(key_note_map_before, EvKey) = {ev.note}
    /\ Held(key_note_map, EvKey) = {ev.note}
    /\ out = <<>>

\* C20: a ControlChange leaves key_note_map as it was, a NoteOn or NoteOff
\* leaves cc_map as it was, and any other message leaves both as they were
\* and makes no device call.
C20_TrackerIndependence ==
    /\ IsCC => key_note_map = key_note_map_before
    /\ IsNoteMsg => cc_map = cc_map_before
    /\ ev.kind = "Other" => (TrackersUnchanged /\ out = <<>> /\ ~warned)

C20_Witness ==
    /\ ev.kind = "Other"
    /\ cc_map # EmptyMap /\ key_note_map # EmptyMap
    /\ TrackersUnchanged

====
